---------------------------- MODULE Spec2Model ----------------------------
(***************************************************************************)
(* Model of dfs0_pipeline.build_seven_day_forecast_data                    *)
(* (src/data_api/pipeline_api.py): the seven day forecast build that looks *)
(* the client's dfs0 files up, keeps the ones whose date key lies in the   *)
(* window after the current date, ingests them in date order and           *)
(* concatenates the dataframes.                                            *)
(*                                                                         *)
(* A date key is a sequence of one-character strings; a datetime is a      *)
(* record [year, month, day, hour, minute]; a dataframe is a sequence of   *)
(* rows; the dictionary the file query returns is a sequence of            *)
(* [key, path] entries in its iteration order, with pairwise distinct keys.*)
(***************************************************************************)
EXTENDS Integers, Sequences, FiniteSets

(***************************************************************************)
(* Bounds of the model.                                                    *)
(***************************************************************************)
\* Largest number of entries of a freely drawn catalog.
MaxCat == 2

(***************************************************************************)
(* datetime arithmetic (the datetime module the pipeline imports at line 7)*)
(***************************************************************************)
IsLeap(y) == (y % 4 = 0) /\ ((y % 100 # 0) \/ (y % 400 = 0))

DaysInMonth(y, m) ==
    IF m = 2 THEN (IF IsLeap(y) THEN 29 ELSE 28)
    ELSE IF m \in {4, 6, 9, 11} THEN 30 ELSE 31

\* The days of a common year before each month.
DaysBeforeMonthTable == <<0, 31, 59, 90, 120, 151, 181, 212, 243, 273, 304, 334>>

DaysBeforeMonth(y, m) ==
    DaysBeforeMonthTable[m] + (IF m > 2 /\ IsLeap(y) THEN 1 ELSE 0)

\* datetime.toordinal(): the proleptic Gregorian day number, 0001-01-01 is 1.
Ordinal(dt) ==
    LET y == dt.year - 1
    IN  y * 365 + (y \div 4) - (y \div 100) + (y \div 400)
        + DaysBeforeMonth(dt.year, dt.month) + dt.day

\* The instant of a datetime in minutes (the finest unit the model keeps).
Minutes(dt) == (Ordinal(dt) * 24 + dt.hour) * 60 + dt.minute

\* (a - b).days: a timedelta is normalised to 0 <= seconds < 86400, so its
\* days field is the floor of the difference in days, negative included.
TimedeltaDays(a, b) == (Minutes(a) - Minutes(b)) \div 1440

(***************************************************************************)
(* datetime.strptime(date_key, "%Y%m%d%H").  The format compiles to the    *)
(* regular expression                                                      *)
(*   (\d\d\d\d)(1[0-2]|0[1-9]|[1-9])(3[0-1]|[1-2]\d|0[1-9]|[1-9]| [1-9])   *)
(*   (2[0-3]|[0-1]\d|\d)                                                   *)
(* matched at the start of the key (alternatives tried in order, with      *)
(* backtracking); a match that does not end at the end of the key, or a    *)
(* day the month does not have, raises ValueError like no match at all.    *)
(***************************************************************************)
Digits == <<"0", "1", "2", "3", "4", "5", "6", "7", "8", "9">>

IsDigit(c) == \E i \in 1..10 : Digits[i] = c

DigitVal(c) == (CHOOSE i \in 1..10 : Digits[i] = c) - 1

\* The character at position p, "" past the end.
At(s, p) == IF p >= 1 /\ p <= Len(s) THEN s[p] ELSE ""

\* The character class [lo-hi].
InClass(c, lo, hi) == IsDigit(c) /\ DigitVal(c) >= lo /\ DigitVal(c) <= hi

YearMatches(s) == \A p \in 1..4 : IsDigit(At(s, p))

MonthLen == <<2, 2, 1>>
MonthAlt(s, p, a) ==
    CASE a = 1 -> At(s, p) = "1" /\ InClass(At(s, p + 1), 0, 2)
      [] a = 2 -> At(s, p) = "0" /\ InClass(At(s, p + 1), 1, 9)
      [] a = 3 -> InClass(At(s, p), 1, 9)

DayLen == <<2, 2, 2, 1, 2>>
DayAlt(s, p, a) ==
    CASE a = 1 -> At(s, p) = "3" /\ InClass(At(s, p + 1), 0, 1)
      [] a = 2 -> InClass(At(s, p), 1, 2) /\ IsDigit(At(s, p + 1))
      [] a = 3 -> At(s, p) = "0" /\ InClass(At(s, p + 1), 1, 9)
      [] a = 4 -> InClass(At(s, p), 1, 9)
      [] a = 5 -> At(s, p) = " " /\ InClass(At(s, p + 1), 1, 9)

HourLen == <<2, 2, 1>>
HourAlt(s, p, a) ==
    CASE a = 1 -> At(s, p) = "2" /\ InClass(At(s, p + 1), 0, 3)
      [] a = 2 -> InClass(At(s, p), 0, 1) /\ IsDigit(At(s, p + 1))
      [] a = 3 -> IsDigit(At(s, p))

\* The ways the expression matches a prefix of s: <<month alternative, day
\* alternative, hour alternative>>.
RegexMatches(s) ==
    IF ~YearMatches(s) THEN {}
    ELSE { t \in (1..3) \X (1..5) \X (1..3) :
             /\ MonthAlt(s, 5, t[1])
             /\ DayAlt(s, 5 + MonthLen[t[1]], t[2])
             /\ HourAlt(s, 5 + MonthLen[t[1]] + DayLen[t[2]], t[3]) }

\* Backtracking returns the first match in the order of the alternatives.
Earlier(t, u) ==
    \/ t[1] < u[1]
    \/ t[1] = u[1] /\ t[2] < u[2]
    \/ t[1] = u[1] /\ t[2] = u[2] /\ t[3] <= u[3]

FirstMatch(s) ==
    LET ms == RegexMatches(s) IN CHOOSE t \in ms : \A u \in ms : Earlier(t, u)

\* int() of the n characters from p: a leading blank is skipped.
RECURSIVE IntOf(_, _, _)
IntOf(s, p, n) ==
    IF n = 0 THEN 0
    ELSE IntOf(s, p, n - 1) * 10
           + (IF IsDigit(At(s, p + n - 1)) THEN DigitVal(At(s, p + n - 1)) ELSE 0)

\* What strptime falls back to for the fields a format does not give.
DefaultDate == [year |-> 1900, month |-> 1, day |-> 1, hour |-> 0, minute |-> 0]

\* strptime: [ok |-> TRUE, dt |-> the datetime], or ok = FALSE for ValueError.
Strptime(s) ==
    IF ~YearMatches(s) \/ RegexMatches(s) = {} THEN [ok |-> FALSE, dt |-> DefaultDate]
    ELSE LET t  == FirstMatch(s)
             pd == 5 + MonthLen[t[1]]
             ph == pd + DayLen[t[2]]
             y  == IntOf(s, 1, 4)
             m  == IntOf(s, 5, MonthLen[t[1]])
             d  == IntOf(s, pd, DayLen[t[2]])
             h  == IntOf(s, ph, HourLen[t[3]])
         IN  IF ph + HourLen[t[3]] - 1 # Len(s) \/ y < 1 \/ d > DaysInMonth(y, m)
             THEN [ok |-> FALSE, dt |-> DefaultDate]
             ELSE [ok |-> TRUE,
                   dt |-> [year |-> y, month |-> m, day |-> d, hour |-> h,
                           minute |-> 0]]

(***************************************************************************)
(* date.strftime("%Y%m%d%H"): the year in four digits (years from 1000 on, *)
(* the only ones the model draws), month, day and hour in two each.        *)
(***************************************************************************)
Pad2(n) == <<Digits[((n \div 10) % 10) + 1], Digits[(n % 10) + 1]>>

Strftime(dt) ==
    Pad2(dt.year \div 100) \o Pad2(dt.year % 100) \o Pad2(dt.month)
        \o Pad2(dt.day) \o Pad2(dt.hour)

(***************************************************************************)
(* The date keys, files and clock readings the model draws its inputs from.*)
(***************************************************************************)
KeyA == <<"2", "0", "2", "4", "0", "3", "0", "1", "0", "6">>
KeyB == <<"2", "0", "2", "4", "0", "3", "0", "2", "0", "6">>
KeyC == <<"2", "0", "2", "4", "0", "3", "0", "9", "0", "0">>
KeyD == <<"2", "0", "2", "4", "0", "2", "2", "9", "0", "0">>
KeyE == <<"2", "0", "2", "4", "0", "3", "0", "8", "0", "0">>
\* A key strptime rejects, and one it accepts although it is not zero-padded
\* (it reads it as 2024-03-02 06h, the instant of KeyB).
KeyBad   == <<"n", "o", "t", "a", "d", "a", "t", "e">>
KeyShort == <<"2", "0", "2", "4", "3", "2", "6">>

Pool ==
    { [key |-> KeyA, path |-> "a.dfs0"], [key |-> KeyB, path |-> "b.dfs0"],
      [key |-> KeyC, path |-> "c.dfs0"], [key |-> KeyE, path |-> "e.dfs0"],
      [key |-> KeyBad, path |-> "n.dfs0"], [key |-> KeyShort, path |-> "s.dfs0"] }

\* The catalog of the four-file scenario.
Scenario ==
    { [key |-> KeyA, path |-> "a.dfs0"], [key |-> KeyB, path |-> "b.dfs0"],
      [key |-> KeyC, path |-> "c.dfs0"], [key |-> KeyD, path |-> "d.dfs0"] }

\* Every iteration order of the entries E.
Orders(E) ==
    { q \in [1..Cardinality(E) -> E] : \A i, j \in 1..Cardinality(E) : q[i] = q[j] => i = j }

Catalogs ==
    UNION { Orders(E) : E \in { X \in SUBSET Pool : Cardinality(X) <= MaxCat } }
        \cup Orders(Scenario)

\* What the wall clock shows, reading after reading.
ClockReadings ==
    << [year |-> 2024, month |-> 3, day |-> 1, hour |-> 0, minute |-> 0],
       [year |-> 2024, month |-> 3, day |-> 1, hour |-> 0, minute |-> 30] >>

\* The dataframe the ingestion engine reads from a file: rows <<time, value>>.
\* Consecutive forecast runs overlap, so files share rows.
main_df(path) ==
    CASE path = "a.dfs0" -> << <<1, 10>>, <<2, 11>> >>
      [] path = "b.dfs0" -> << <<2, 11>>, <<3, 12>> >>
      [] path = "c.dfs0" -> << <<9, 19>> >>
      [] path = "d.dfs0" -> << <<0, 9>>, <<1, 10>> >>
      [] path = "e.dfs0" -> << <<8, 18>>, <<7, 17>> >>
      [] path = "n.dfs0" -> << <<5, 15>> >>
      [] path = "s.dfs0" -> << <<4, 14>>, <<3, 13>> >>

\* The two calls of build_seven_day_forecast_data the model follows.
Invocations == {"call1", "call2"}

\* The keys a call can meet: those of the files, and the selected datetimes
\* converted back to strings.
KeyUniverse ==
    LET given == { e.key : e \in Pool \cup Scenario }
    IN  given \cup { Strftime(Strptime(k).dt) : k \in given }

\* strptime on the keys of the model, computed once.
Parsed == [k \in KeyUniverse |-> Strptime(k)]

(***************************************************************************)
(* The steps of build_seven_day_forecast_data as operators.                *)
(***************************************************************************)
Keys(forecast_dict) == { forecast_dict[n].key : n \in 1..Len(forecast_dict) }

\* forecast_dict[date_key]: the path stored under the key.
Lookup(forecast_dict, date_key) ==
    (CHOOSE e \in { forecast_dict[n] : n \in 1..Len(forecast_dict) } :
        e.key = date_key).path

\* Mutant: the keys strptime raises on are passed over.
NoneUnparsed(forecast_dict) == 0

\* The first key, in iteration order, strptime raises on; 0 when all parse.
FirstUnparsed(forecast_dict) ==
    LET ok == [n \in 1..Len(forecast_dict) |-> Parsed[forecast_dict[n].key].ok]
    IN  IF \A n \in 1..Len(forecast_dict) : ok[n] THEN 0
        ELSE CHOOSE n \in 1..Len(forecast_dict) :
               ~ok[n] /\ \A k \in 1..(n - 1) : ok[k]

\* date_lst: the keys as datetimes, in iteration order.
DateLst(forecast_dict) ==
    [n \in 1..Len(forecast_dict) |-> Parsed[forecast_dict[n].key].dt]

\* Mutant: a window that stops short of the day count 7.
InWindowBelowSeven(date, current_date) ==
    LET days == TimedeltaDays(date, current_date) IN days < 7 /\ days > 0

\* Mutant: a window that lets the day count 0 in.
InWindowFromZero(date, current_date) ==
    LET days == TimedeltaDays(date, current_date) IN days <= 7 /\ days >= 0

\* The condition of the slice.
InWindow(date, current_date) ==
    LET days == TimedeltaDays(date, current_date) IN days <= 7 /\ days > 0

\* The slice of date_lst: the datetimes in the window, in their order.
RECURSIVE Slice(_, _)
Slice(date_lst, current_date) ==
    IF date_lst = <<>> THEN <<>>
    ELSE LET rest == Slice(Tail(date_lst), current_date)
         IN  IF InWindow(Head(date_lst), current_date)
             THEN <<Head(date_lst)>> \o rest ELSE rest

\* Insertion of d into a sorted list, after the elements not later than it.
RECURSIVE Insert(_, _)
Insert(d, lst) ==
    IF lst = <<>> THEN <<d>>
    ELSE IF Minutes(d) < Minutes(Head(lst)) THEN <<d>> \o lst
    ELSE <<Head(lst)>> \o Insert(d, Tail(lst))

RECURSIVE SortFrom(_, _)
SortFrom(lst, acc) ==
    IF lst = <<>> THEN acc ELSE SortFrom(Tail(lst), Insert(Head(lst), acc))

\* Mutant: the list left in the dictionary's iteration order.
Unsorted(lst) == lst

\* list.sort() of datetimes: ascending and stable.
Sorted(lst) == SortFrom(lst, <<>>)

\* forecast_date_lst: slice, sort, and back to strings.
ForecastDateLst(forecast_dict, current_date) ==
    LET sorted == Sorted(Slice(DateLst(forecast_dict), current_date))
    IN  [n \in 1..Len(sorted) |-> Strftime(sorted[n])]

\* pd.concat of a non-empty list of dataframes: their rows one after another.
RECURSIVE Concat(_)
Concat(df_lst) ==
    IF df_lst = <<>> THEN <<>> ELSE Head(df_lst) \o Concat(Tail(df_lst))

(***************************************************************************)
(* How a call ends.                                                        *)
(***************************************************************************)
Pending == [kind |-> "pending", exc |-> "", key |-> <<>>, path |-> "", df |-> <<>>]

\* return forecast_df
Returned(df) == [kind |-> "returned", exc |-> "", key |-> <<>>, path |-> "", df |-> df]

\* The end of the method is reached without a return statement.
ReturnedNone == [kind |-> "none", exc |-> "", key |-> <<>>, path |-> "", df |-> <<>>]

\* An exception leaves the method: exc its type, key or path what it names.
Raised(exc, key, path) ==
    [kind |-> "raised", exc |-> exc, key |-> key, path |-> path, df |-> <<>>]

\* Mutant: the lists kept on the pipeline object, which every call shares.
FrameOnSelf(i) == "call1"

\* The frame holding a call's local variables: each call has its own.
Frame(i) == i

NoFrame ==
    [forecast_dict |-> <<>>, current_date |-> DefaultDate,
     forecast_date_lst |-> <<>>, forecast_df_lst |-> <<>>]

\* Mutant: an engine whose failure is swallowed and leaves an empty dataframe.
EngineSwallowing(path, unread) ==
    [ok |-> TRUE, df |-> IF path \in unread THEN <<>> ELSE main_df(path)]

\* dfs0_ingestion_engine(path).main_df: the dataframe, or ok = FALSE when the
\* engine raises (unread: the paths it cannot read).
Engine(path, unread) ==
    IF path \in unread THEN [ok |-> FALSE, df |-> <<>>]
    ELSE [ok |-> TRUE, df |-> main_df(path)]

\* The whole method run on its own, from the n-th file to ingest on.
RECURSIVE RunFrom(_, _, _, _, _)
RunFrom(forecast_dict, forecast_date_lst, unread, n, forecast_df_lst) ==
    IF n > Len(forecast_date_lst)
    THEN (IF forecast_df_lst = <<>> THEN ReturnedNone
          ELSE Returned(Concat(forecast_df_lst)))
    ELSE IF forecast_date_lst[n] \notin Keys(forecast_dict)
    THEN Raised("KeyError", forecast_date_lst[n], "")
    ELSE LET path == Lookup(forecast_dict, forecast_date_lst[n])
         IN  IF ~Engine(path, unread).ok
             THEN Raised("IngestionFailure", <<>>, path)
             ELSE RunFrom(forecast_dict, forecast_date_lst, unread, n + 1,
                          Append(forecast_df_lst, Engine(path, unread).df))

\* What one call returns or raises when nothing else runs.
RunAlone(forecast_dict, current_date, unread) ==
    IF FirstUnparsed(forecast_dict) # 0
    THEN Raised("ValueError", forecast_dict[FirstUnparsed(forecast_dict)].key, "")
    ELSE RunFrom(forecast_dict, ForecastDateLst(forecast_dict, current_date),
                 unread, 1, <<>>)

(***************************************************************************)
(* The state.                                                              *)
(***************************************************************************)
VARIABLES
    self,        \* the pipeline object: client_name, root_dir
    catalog,     \* what the file query returns for the client
    unreadable,  \* the paths the ingestion engine raises on
    clock,       \* which reading the wall clock shows
    pc,          \* where each call is: "idle", "ingest", "done"
    frame,       \* the local variables of the calls
    outcome,     \* how each call ended
    calls        \* what each call has called so far, in order

vars == <<self, catalog, unreadable, clock, pc, frame, outcome, calls>>

\* One call made by the method: the file query ("lookup"), strptime on a key,
\* the ingestion engine on a path ("ingest"), pd.concat ("concat").
Call(op, key, path) == [op |-> op, key |-> key, path |-> path]

\* The calls of lines 74-83: the file query, then strptime key after key in
\* iteration order, up to and including the first key it raises on.
BeginCalls(forecast_dict) ==
    LET bad  == FirstUnparsed(forecast_dict)
        last == IF bad # 0 THEN bad ELSE Len(forecast_dict)
    IN  <<Call("lookup", <<>>, "")>>
            \o [n \in 1..last |-> Call("strptime", forecast_dict[n].key, "")]

\* dfs0_pipeline(client_name, root_dir), as in the test at the end of the file.
InitSelf == [client_name |-> "TT_HD_BPTT_Cypre", root_dir |-> "WaterForecastTT"]

\* self.file_query.get_seven_day_forcast_files(client_name)
GetSevenDayForcastFiles(client_name) ==
    IF client_name = InitSelf.client_name THEN catalog ELSE <<>>

\* datetime.today()
Today == ClockReadings[clock]

Init ==
    /\ self = InitSelf
    /\ catalog \in Catalogs
    /\ unreadable \in SUBSET { catalog[n].path : n \in 1..Len(catalog) }
    /\ clock = 1
    /\ pc = [i \in Invocations |-> "idle"]
    /\ frame = [i \in Invocations |-> NoFrame]
    /\ outcome = [i \in Invocations |-> Pending]
    /\ calls = [i \in Invocations |-> <<>>]

\* Lines 74-98: the query, the current date, the parse of every key, the slice,
\* the sort and the conversion back to strings.
Begin(i) ==
    /\ pc[i] = "idle"
    /\ LET forecast_dict == GetSevenDayForcastFiles(self.client_name)
           current_date  == Today
           bad           == FirstUnparsed(forecast_dict)
       IN  IF bad # 0
           THEN /\ frame' = [frame EXCEPT ![Frame(i)] =
                                [NoFrame EXCEPT !.forecast_dict = forecast_dict,
                                                !.current_date = current_date]]
                /\ outcome' = [outcome EXCEPT ![i] =
                                  Raised("ValueError", forecast_dict[bad].key, "")]
                /\ pc' = [pc EXCEPT ![i] = "done"]
           ELSE /\ frame' = [frame EXCEPT ![Frame(i)] =
                                [forecast_dict |-> forecast_dict,
                                 current_date |-> current_date,
                                 forecast_date_lst |->
                                     ForecastDateLst(forecast_dict, current_date),
                                 forecast_df_lst |-> <<>>]]
                /\ outcome' = outcome
                /\ pc' = [pc EXCEPT ![i] = "ingest"]
    /\ calls' = [calls EXCEPT ![i] =
                    BeginCalls(GetSevenDayForcastFiles(self.client_name))]
    /\ UNCHANGED <<self, catalog, unreadable, clock>>

\* Lines 103-108, one file: the path of the next key, and its dataframe.
Ingest(i) ==
    /\ pc[i] = "ingest"
    /\ Len(frame[Frame(i)].forecast_df_lst) < Len(frame[Frame(i)].forecast_date_lst)
    /\ LET f        == frame[Frame(i)]
           date_key == f.forecast_date_lst[Len(f.forecast_df_lst) + 1]
       IN  IF date_key \notin Keys(f.forecast_dict)
           THEN /\ outcome' = [outcome EXCEPT ![i] = Raised("KeyError", date_key, "")]
                /\ pc' = [pc EXCEPT ![i] = "done"]
                /\ UNCHANGED <<frame, calls>>
           ELSE LET path == Lookup(f.forecast_dict, date_key)
                IN  IF ~Engine(path, unreadable).ok
                    THEN /\ outcome' = [outcome EXCEPT ![i] =
                                           Raised("IngestionFailure", <<>>, path)]
                         /\ pc' = [pc EXCEPT ![i] = "done"]
                         /\ frame' = frame
                         /\ calls' = [calls EXCEPT ![i] =
                                         Append(@, Call("ingest", <<>>, path))]
                    ELSE /\ frame' = [frame EXCEPT ![Frame(i)].forecast_df_lst =
                                         Append(@, Engine(path, unreadable).df)]
                         /\ calls' = [calls EXCEPT ![i] =
                                         Append(@, Call("ingest", <<>>, path))]
                         /\ UNCHANGED <<outcome, pc>>
    /\ UNCHANGED <<self, catalog, unreadable, clock>>

\* Lines 111-119: the concatenation; the ValueError pd.concat raises on an empty
\* list is caught and the method ends without a return statement.
ConcatStep(i) ==
    /\ pc[i] = "ingest"
    /\ Len(frame[Frame(i)].forecast_df_lst) = Len(frame[Frame(i)].forecast_date_lst)
    /\ outcome' = [outcome EXCEPT ![i] =
                      IF frame[Frame(i)].forecast_df_lst = <<>> THEN ReturnedNone
                      ELSE Returned(Concat(frame[Frame(i)].forecast_df_lst))]
    /\ pc' = [pc EXCEPT ![i] = "done"]
    /\ calls' = [calls EXCEPT ![i] = Append(@, Call("concat", <<>>, ""))]
    /\ UNCHANGED <<self, catalog, unreadable, clock, frame>>

\* Time passes: the wall clock shows its next reading.
Tick ==
    /\ clock < Len(ClockReadings)
    /\ clock' = clock + 1
    /\ UNCHANGED <<self, catalog, unreadable, pc, frame, outcome, calls>>

Next ==
    \/ \E i \in Invocations : Begin(i)
    \/ \E i \in Invocations : Ingest(i)
    \/ \E i \in Invocations : ConcatStep(i)
    \/ Tick

Spec == Init /\ [][Next]_vars

(***************************************************************************)
(* Vocabulary of the properties.                                           *)
(***************************************************************************)
\* The local variables of call i.
Locals(i) == frame[Frame(i)]

Range(seq) == { seq[n] : n \in 1..Len(seq) }

Entries(forecast_dict) == Range(forecast_dict)

AllParse(forecast_dict) ==
    \A n \in 1..Len(forecast_dict) : Parsed[forecast_dict[n].key].ok

\* Call i has parsed every key of its dictionary and made its selection.
Selected(i) == pc[i] # "idle" /\ AllParse(Locals(i).forecast_dict)

\* The floor day count from the current date of call i to the n-th key.
DayCount(i, n) ==
    TimedeltaDays(Parsed[Locals(i).forecast_dict[n].key].dt, Locals(i).current_date)

\* The n-th key of the dictionary of call i is in its selection.
Included(i, n) ==
    Strftime(Parsed[Locals(i).forecast_dict[n].key].dt)
        \in Range(Locals(i).forecast_date_lst)

\* C1: when every key parses, a key is in the selection if and only if the
\* floor day count d from the current date to its timestamp has 0 < d <= 7,
\* and the selection holds one element per such key.
C1_WindowIsOneToSevenDayCounts ==
    \A i \in Invocations :
        Selected(i) =>
            LET N == Len(Locals(i).forecast_dict)
            IN  /\ \A n \in 1..N :
                      Included(i, n) <=> (0 < DayCount(i, n) /\ DayCount(i, n) <= 7)
                /\ Len(Locals(i).forecast_date_lst) =
                      Cardinality({ n \in 1..N : 0 < DayCount(i, n) /\ DayCount(i, n) <= 7 })

\* A call at 2024-03-01 00:00 with the key exactly seven days ahead in its
\* dictionary has selected it, next to a key it has left out.
C1_Witness ==
    \E i \in Invocations :
        /\ Selected(i)
        /\ Locals(i).current_date = ClockReadings[1]
        /\ KeyE \in Keys(Locals(i).forecast_dict)
        /\ KeyC \in Keys(Locals(i).forecast_dict)
        /\ Locals(i).forecast_date_lst = <<KeyE>>

\* The call i has made its selection from the four-file scenario at
\* 2024-03-01 00:00.
InScenario(i) ==
    /\ pc[i] # "idle"
    /\ Entries(Locals(i).forecast_dict) = Scenario
    /\ Locals(i).current_date = ClockReadings[1]

\* C2 as stated: at 2024-03-01 00:00 the catalog of 2024030106, 2024030206,
\* 2024030900 and 2024022900 yields the selection [2024030106, 2024030206].
C2_ScenarioSelectsAAndB ==
    \A i \in Invocations :
        InScenario(i) => Locals(i).forecast_date_lst = <<KeyA, KeyB>>

\* C2 as amended: in that scenario the selection is [2024030206] alone;
\* 2024030106, six hours ahead, has the day count 0 and is left out like
\* 2024030900 and 2024022900.
C2_ScenarioSelectsBOnly ==
    \A i \in Invocations :
        InScenario(i) => Locals(i).forecast_date_lst = <<KeyB>>

\* A call has made its selection in the scenario, from a dictionary that
\* iterates 2024030900 first and 2024030106 last.
C2_Witness ==
    \E i \in Invocations :
        /\ InScenario(i)
        /\ Locals(i).forecast_dict[1].key = KeyC
        /\ Locals(i).forecast_dict[4].key = KeyA

\* C3 as stated: with the current date r on the hour, a key is selected if and
\* only if its timestamp t has r < t <= r + 7 days.
C3_WindowIsTheNextSevenDays ==
    \A i \in Invocations :
        (Selected(i) /\ Locals(i).current_date.minute = 0) =>
            \A n \in 1..Len(Locals(i).forecast_dict) :
                LET t == Minutes(Parsed[Locals(i).forecast_dict[n].key].dt)
                    r == Minutes(Locals(i).current_date)
                IN  Included(i, n) <=> (r < t /\ t <= r + 7 * 1440)

\* C3 as amended: a key is selected if and only if its timestamp t has
\* r + 1 day <= t < r + 8 days: the first 24 hours after the current date r
\* are outside the window, the eighth day after it is inside.
C3_WindowIsFromOneDayToEightDays ==
    \A i \in Invocations :
        Selected(i) =>
            \A n \in 1..Len(Locals(i).forecast_dict) :
                LET t == Minutes(Parsed[Locals(i).forecast_dict[n].key].dt)
                    r == Minutes(Locals(i).current_date)
                IN  Included(i, n) <=> (r + 1440 <= t /\ t < r + 8 * 1440)

\* A call at 2024-03-01 00:30 has left out the key six hours after 00:00 and
\* selected the key eight days after 00:00.
C3_Witness ==
    \E i \in Invocations :
        /\ Selected(i)
        /\ Locals(i).current_date = ClockReadings[2]
        /\ Keys(Locals(i).forecast_dict) = {KeyA, KeyC}
        /\ Locals(i).forecast_date_lst = <<KeyC>>

\* C4: the selection is in ascending order of the timestamps its keys decode
\* to, and every iteration order of the same dictionary gives the same one.
C4_SortedWhateverTheIterationOrder ==
    \A i \in Invocations :
        Selected(i) =>
            LET lst == Locals(i).forecast_date_lst
            IN  /\ \A a, b \in 1..Len(lst) :
                      a < b => Minutes(Parsed[lst[a]].dt) <= Minutes(Parsed[lst[b]].dt)
                /\ \A q \in Orders(Entries(Locals(i).forecast_dict)) :
                      ForecastDateLst(q, Locals(i).current_date) = lst

\* A call whose dictionary iterates the later key first has selected both keys,
\* the earlier one first.
C4_Witness ==
    \E i \in Invocations :
        /\ Selected(i)
        /\ Len(Locals(i).forecast_dict) = 2
        /\ Locals(i).forecast_dict[1].key = KeyE
        /\ Locals(i).forecast_dict[2].key = KeyB
        /\ Locals(i).forecast_date_lst = <<KeyB, KeyE>>

\* C5: a call whose selection is empty ends by raising an error; it never
\* ends normally.
C5_EmptySelectionRaises ==
    \A i \in Invocations :
        ( /\ pc[i] = "done"
          /\ AllParse(Locals(i).forecast_dict)
          /\ Locals(i).forecast_date_lst = <<>> )
        => outcome[i].kind = "raised"

\* The places in the selection of call i whose file the engine cannot read.
Failing(i) ==
    { n \in 1..Len(Locals(i).forecast_date_lst) :
        /\ Locals(i).forecast_date_lst[n] \in Keys(Locals(i).forecast_dict)
        /\ Lookup(Locals(i).forecast_dict, Locals(i).forecast_date_lst[n]) \in unreadable }

FirstFailing(i) == CHOOSE n \in Failing(i) : \A m \in Failing(i) : n <= m

\* Every selected key of call i is a key of its dictionary.
AllResolve(i) ==
    \A n \in 1..Len(Locals(i).forecast_date_lst) :
        Locals(i).forecast_date_lst[n] \in Keys(Locals(i).forecast_dict)

\* C6 as stated: a call one of whose selected files cannot be ingested ends
\* with an error that carries the date key of the failing file.
C6_IngestionErrorCarriesTheKey ==
    \A i \in Invocations :
        (pc[i] = "done" /\ Selected(i) /\ AllResolve(i) /\ Failing(i) # {}) =>
            /\ outcome[i].kind = "raised"
            /\ outcome[i].key = Locals(i).forecast_date_lst[FirstFailing(i)]

\* C6 as amended: a call one of whose selected files cannot be ingested ends
\* with an exception and returns no dataframe, wherever the file stands in the
\* selection; the exception is the engine's own for the first such file, naming
\* the path the engine was given and no date key, unless the lookup of an
\* earlier selected key has raised KeyError before.
C6_IngestionFailureEndsTheCall ==
    \A i \in Invocations :
        (pc[i] = "done" /\ Selected(i) /\ Failing(i) # {}) =>
            LET lst  == Locals(i).forecast_date_lst
                n    == FirstFailing(i)
                path == Lookup(Locals(i).forecast_dict, lst[n])
            IN  /\ outcome[i].kind = "raised"
                /\ outcome[i].df = <<>>
                /\ IF \A m \in 1..(n - 1) : lst[m] \in Keys(Locals(i).forecast_dict)
                   THEN /\ outcome[i] = Raised("IngestionFailure", <<>>, path)
                        /\ Len(Locals(i).forecast_df_lst) = n - 1
                   ELSE outcome[i].exc = "KeyError"

\* A call has ended on the failure of its second file, the first one ingested.
C6_Witness ==
    \E i \in Invocations :
        /\ pc[i] = "done"
        /\ Selected(i)
        /\ Failing(i) # {}
        /\ FirstFailing(i) = 2
        /\ Len(Locals(i).forecast_df_lst) = 1
        /\ outcome[i].exc = "IngestionFailure"

\* C7: a call whose dictionary holds a key strptime rejects ends with the
\* ValueError of the first such key, whatever the other keys are; nothing is
\* ingested and nothing is returned.
C7_UnparsedKeyRaises ==
    \A i \in Invocations :
        (pc[i] # "idle" /\ ~AllParse(Locals(i).forecast_dict)) =>
            /\ pc[i] = "done"
            /\ outcome[i].kind = "raised"
            /\ outcome[i].exc = "ValueError"
            /\ outcome[i].key \in Keys(Locals(i).forecast_dict)
            /\ ~Parsed[outcome[i].key].ok
            /\ Locals(i).forecast_df_lst = <<>>

\* A call has ended with the ValueError of "notadate" although its dictionary
\* also holds a key inside the window.
C7_Witness ==
    \E i \in Invocations :
        /\ pc[i] = "done"
        /\ Keys(Locals(i).forecast_dict) = {KeyB, KeyBad}
        /\ Locals(i).current_date = ClockReadings[1]
        /\ outcome[i] = Raised("ValueError", KeyBad, "")

\* C8 as stated: the method takes no reference instant, so two calls on the
\* same catalog are made with the same inputs; they end alike.
C8_SameCallSameResult ==
    \A i, j \in Invocations :
        (pc[i] = "done" /\ pc[j] = "done") => outcome[i] = outcome[j]

\* C8 as amended: two calls that read the same current date from the wall
\* clock have the same selection and end alike.
C8_SameCurrentDateSameResult ==
    \A i, j \in Invocations :
        ( /\ pc[i] = "done" /\ pc[j] = "done"
          /\ Locals(i).current_date = Locals(j).current_date )
        => /\ outcome[i] = outcome[j]
           /\ Locals(i).forecast_date_lst = Locals(j).forecast_date_lst

\* Both calls have read the same current date and returned a dataframe.
C8_Witness ==
    \E i, j \in Invocations :
        /\ i # j
        /\ pc[i] = "done" /\ pc[j] = "done"
        /\ Locals(i).current_date = Locals(j).current_date
        /\ outcome[i].kind = "returned"
        /\ outcome[j].kind = "returned"

\* The entries of the dictionary inside the window of the current date, by
\* ascending timestamp (entries of one timestamp in iteration order).
EntriesInWindow(forecast_dict, current_date) ==
    LET t(n)  == Minutes(Parsed[forecast_dict[n].key].dt)
        sel   == { n \in 1..Len(forecast_dict) :
                     LET days == TimedeltaDays(Parsed[forecast_dict[n].key].dt,
                                               current_date)
                     IN  0 < days /\ days <= 7 }
        rank(n) == Cardinality({ m \in sel : t(m) < t(n) \/ (t(m) = t(n) /\ m <= n) })
    IN  [k \in 1..Cardinality(sel) |->
            forecast_dict[CHOOSE n \in sel : rank(n) = k]]

\* C9: a call that returns a dataframe returns the rows of the file of every
\* selected entry once, entry after entry in ascending order, and nothing else.
C9_ReturnsEverySelectedFileOnce ==
    \A i \in Invocations :
        (pc[i] = "done" /\ outcome[i].kind = "returned") =>
            LET sel == EntriesInWindow(Locals(i).forecast_dict, Locals(i).current_date)
            IN  outcome[i].df = Concat([k \in 1..Len(sel) |-> main_df(sel[k].path)])

\* C10: whatever the interleaving, a call ends as it would on its own with
\* the current date it read, and no call changes the pipeline object or the
\* dictionary of the file query.
C10_CallsDoNotInterfere ==
    /\ self = InitSelf
    /\ \A i \in Invocations :
          /\ pc[i] # "idle" => Locals(i).forecast_dict = catalog
          /\ pc[i] = "done" =>
                outcome[i] = RunAlone(catalog, Locals(i).current_date, unreadable)
          /\ pc[i] # "done" => outcome[i] = Pending

\* One call has begun later than the other and ended with a dataframe, while
\* the other, begun earlier, is between two of its files.
C10_Witness ==
    \E i, j \in Invocations :
        /\ pc[i] = "done" /\ outcome[i].kind = "returned"
        /\ Len(Locals(i).forecast_df_lst) = 2
        /\ pc[j] = "ingest"
        /\ Len(Locals(j).forecast_df_lst) = 1
        /\ Len(Locals(j).forecast_date_lst) = 2
        /\ Minutes(Locals(j).current_date) < Minutes(Locals(i).current_date)

\* The places of the calls of call i with the given operation.
Places(i, op) == { n \in 1..Len(calls[i]) : calls[i][n].op = op }

\* The paths call i has handed to the ingestion engine, in order.
IngestedPaths(i) ==
    LET at == SelectSeq(calls[i], LAMBDA c : c.op = "ingest")
    IN  [n \in 1..Len(at) |-> at[n].path]

\* The file query is called once, first of all.
LookupOnceAndFirst(i) ==
    pc[i] # "idle" => Places(i, "lookup") = {1}

\* Every key of the dictionary is parsed before the first file is ingested.
ParsedBeforeIngested(i) ==
    /\ \A a \in Places(i, "strptime") : \A b \in Places(i, "ingest") : a < b
    /\ Places(i, "ingest") # {} =>
          { calls[i][a].key : a \in Places(i, "strptime") }
              = Keys(Locals(i).forecast_dict)

\* No file is handed to the engine twice, and none after a failure.
IngestedAtMostOnce(i) ==
    /\ \A a, b \in Places(i, "ingest") :
          calls[i][a].path = calls[i][b].path => a = b
    /\ \A a \in Places(i, "ingest") :
          calls[i][a].path \in unreadable => a = Len(calls[i])

\* The files handed to the engine are those of the entries in the window, in
\* ascending order of their keys, as far as the call has come.
IngestedInWindowOrder(i) ==
    Places(i, "ingest") # {} =>
        LET sel == EntriesInWindow(Locals(i).forecast_dict, Locals(i).current_date)
            got == IngestedPaths(i)
        IN  /\ Len(got) <= Len(sel)
            /\ \A n \in 1..Len(got) : got[n] = sel[n].path

\* The concatenation is called last, once, after one ingestion per selected key.
ConcatLast(i) ==
    /\ \A a \in Places(i, "concat") : a = Len(calls[i])
    /\ Places(i, "concat") # {} =>
          Len(IngestedPaths(i)) = Len(Locals(i).forecast_date_lst)

\* C11: within a call the file query is called once and first, every key is
\* parsed before any file is ingested, the engine is called once per selected
\* key in ascending key order, never twice on a file, never after a failure
\* and never on a file outside the window, and the concatenation comes last.
C11_CallsInOrderEachFileOnce ==
    \A i \in Invocations :
        /\ LookupOnceAndFirst(i)
        /\ ParsedBeforeIngested(i)
        /\ IngestedAtMostOnce(i)
        /\ IngestedInWindowOrder(i)
        /\ ConcatLast(i)

\* C12: when every key of the dictionary parses, converting a key to a
\* datetime and back gives the key itself, so every selected string is a key
\* of the dictionary, no string is selected twice, and no lookup of a selected
\* string raises KeyError.
C12_KeysSurviveTheRoundTrip ==
    \A i \in Invocations :
        Selected(i) =>
            LET forecast_dict == Locals(i).forecast_dict
                lst           == Locals(i).forecast_date_lst
            IN  /\ \A n \in 1..Len(forecast_dict) :
                      Strftime(Parsed[forecast_dict[n].key].dt) = forecast_dict[n].key
                /\ \A n \in 1..Len(lst) : lst[n] \in Keys(forecast_dict)
                /\ \A a, b \in 1..Len(lst) : lst[a] = lst[b] => a = b
                /\ outcome[i].exc # "KeyError"

=============================================================================
